---------------------------- MODULE Spec2Model ----------------------------
(***************************************************************************)
(* ColorCap colour-palette generator (src/script.js, the application that  *)
(* starts at the "--- Configuration ---" section, line 667).               *)
(*                                                                         *)
(* Colour components are modelled on the integer grid: a hue is a whole    *)
(* number of degrees, saturation and lightness whole percents.  A call of  *)
(* Math.random() is modelled by its outcome d/360, d in 0..359.            *)
(* A JavaScript string is a sequence of one-character strings.             *)
(***************************************************************************)
EXTENDS Integers, Sequences, FiniteSets, TLC

VARIABLES
    pc,              \* "loading" before DOMContentLoaded, "ready" after init()
    colors,          \* state.colors
    currentHarmony,  \* state.currentHarmony
    selectedHarmony, \* state.selectedHarmony
    selectedFormats, \* state.selectedFormats
    lockedColors,    \* state.lockedColors
    lockedClass,     \* per column: the 'locked' class of the column and of its lock button
    savedPalettes,   \* state.savedPalettes
    currentView,     \* state.currentView
    currentUser,     \* state.currentUser
    users,           \* the user list in localStorage under CONFIG.usersKey
    pending,         \* the calls of signup and login that await hashPassword, in call order
    storage,         \* localStorage: the palette list under each storage key
    savedUnder,      \* history: <<key, record>> for every record saved, key current at the time
    clock,           \* the last value Date.now() returned
    call,            \* the last call of generatePalette: what it read and computed
    last,            \* which handler of the saved palettes ran or which call of signup or
                     \* login returned last, with the id it was given or what it returned
    theme,           \* state.theme
    dataTheme,       \* the data-theme attribute of the html element
    storedTheme,     \* localStorage under CONFIG.themeKey: <<>> when there is no item
    prefersDark,     \* whether the system's colour scheme preference is dark
    userChose,       \* history: the user has chosen a theme, now or on an earlier visit
    steps,           \* user events handled since init()
    fnPc,            \* the pure function applied to fnArgs ("input": none yet; "idle": none under test)
    fnArgs,          \* the inputs of the pure function
    fnRes            \* what the pure function returned

appVars == <<pc, colors, currentHarmony, selectedHarmony, selectedFormats,
             lockedColors, lockedClass, savedPalettes, currentView, currentUser,
             users, pending, storage, savedUnder, clock, call, last, steps,
             theme, dataTheme, storedTheme, prefersDark, userChose>>
fnVars == <<fnPc, fnArgs, fnRes>>
vars == <<appVars, fnVars>>

-----------------------------------------------------------------------------
(* Bounds of the model *)

\* user events handled after init()
MaxSteps == 3
\* Date.now() takes the values 0..MaxClock
MaxClock == 1
\* hue inputs of the pure functions span -MaxTurns..MaxTurns full turns
MaxTurns == 1
\* saturation and lightness inputs reach PercentMargin beyond 0 and 100
PercentMargin == 10
\* calls of signup and login that await hashPassword at a time
MaxPending == 2

-----------------------------------------------------------------------------
(* Program constants *)

columnCount == 5

harmonies ==
    <<"monochromatic", "complementary", "analogous", "triadic",
      "split-complementary", "tetradic">>

Harmonies == {harmonies[i] : i \in 1..Len(harmonies)}

Columns == 1..columnCount

-----------------------------------------------------------------------------
(* JavaScript arithmetic *)

Abs(x) == IF x < 0 THEN -x ELSE x

\* a % n of JavaScript: the remainder takes the sign of the dividend
JsRem(a, n) == IF a >= 0 THEN a % n ELSE -((-a) % n)

\* Math.round(num / den) for den > 0: the nearest integer, halves towards +Infinity
MathRound(num, den) == (2 * num + den) \div (2 * den)

Max2(a, b) == IF a >= b THEN a ELSE b

Min2(a, b) == IF a <= b THEN a ELSE b

-----------------------------------------------------------------------------
(* Colour space conversion *)

hslToRgb_swapped(h, s, l) ==
    LET c4 == (100 - Abs(2 * l - 100)) * s
        c == 60 * c4
        x == c4 * (60 - Abs(JsRem(h, 120) - 60))
        m == 6000 * l - 30 * c4
        rgb == IF 0 <= h /\ h < 60 THEN <<c, x, 0>>
               ELSE IF 60 <= h /\ h < 120 THEN <<x, c, 0>>
               ELSE IF 120 <= h /\ h < 180 THEN <<0, x, c>>
               ELSE IF 180 <= h /\ h < 240 THEN <<0, c, x>>
               ELSE IF 240 <= h /\ h < 300 THEN <<x, 0, c>>
               ELSE IF 300 <= h /\ h < 360 THEN <<c, 0, x>>
               ELSE <<0, 0, 0>>
    IN  [r |-> MathRound((rgb[1] + m) * 255, 600000),
         g |-> MathRound((rgb[2] + m) * 255, 600000),
         b |-> MathRound((rgb[3] + m) * 255, 600000)]

\* s and l are percents; c, x and m are kept as numerators over 600000:
\*   c = (1 - |2l - 1|) * s            = 60 * c4 / 600000
\*   x = c * (1 - |(h / 60) % 2 - 1|)  = c4 * (60 - |h % 120 - 60|) / 600000
\*   m = l - c / 2                     = (6000 * l - 30 * c4) / 600000
hslToRgb(h, s, l) ==
    LET c4 == (100 - Abs(2 * l - 100)) * s
        c == 60 * c4
        x == c4 * (60 - Abs(JsRem(h, 120) - 60))
        m == 6000 * l - 30 * c4
        rgb == IF 0 <= h /\ h < 60 THEN <<c, x, 0>>
               ELSE IF 60 <= h /\ h < 120 THEN <<x, c, 0>>
               ELSE IF 120 <= h /\ h < 180 THEN <<0, c, x>>
               ELSE IF 180 <= h /\ h < 240 THEN <<0, x, c>>
               ELSE IF 240 <= h /\ h < 300 THEN <<x, 0, c>>
               ELSE IF 300 <= h /\ h < 360 THEN <<c, 0, x>>
               ELSE <<0, 0, 0>>
    IN  [r |-> MathRound((rgb[1] + m) * 255, 600000),
         g |-> MathRound((rgb[2] + m) * 255, 600000),
         b |-> MathRound((rgb[3] + m) * 255, 600000)]

HexLower ==
    <<"0", "1", "2", "3", "4", "5", "6", "7", "8", "9", "a", "b", "c", "d", "e", "f">>

RECURSIVE NatToString16(_)
NatToString16(n) ==
    IF n < 16 THEN <<HexLower[n + 1]>>
    ELSE NatToString16(n \div 16) \o <<HexLower[(n % 16) + 1]>>

\* n.toString(16): a negative number prints a minus sign before its magnitude
toString16(n) == IF n < 0 THEN <<"-">> \o NatToString16(-n) ELSE NatToString16(n)

RECURSIVE padStart(_, _, _)
padStart(str, len, fill) ==
    IF Len(str) >= len THEN str ELSE padStart(<<fill>> \o str, len, fill)

toUpperCaseChar(ch) ==
    CASE ch = "a" -> "A" [] ch = "b" -> "B" [] ch = "c" -> "C"
      [] ch = "d" -> "D" [] ch = "e" -> "E" [] ch = "f" -> "F"
      [] OTHER -> ch

toUpperCase(str) == [i \in 1..Len(str) |-> toUpperCaseChar(str[i])]

toHex_nopad(n) == toUpperCase(toString16(n))

toHex(n) == toUpperCase(padStart(toString16(n), 2, "0"))

hslToHex(h, s, l) ==
    LET rgb == hslToRgb(h, s, l)
    IN  <<"#">> \o toHex(rgb.r) \o toHex(rgb.g) \o toHex(rgb.b)

RECURSIVE NatToString10(_)
NatToString10(n) ==
    IF n < 10 THEN <<HexLower[n + 1]>>
    ELSE NatToString10(n \div 10) \o <<HexLower[(n % 10) + 1]>>

\* `${n}` for an integer n
toString10(n) == IF n < 0 THEN <<"-">> \o NatToString10(-n) ELSE NatToString10(n)

hslToRgba(h, s, l, a) ==
    LET rgb == hslToRgb(h, s, l)
    IN  <<"r", "g", "b", "a", "(">> \o toString10(rgb.r) \o <<",", " ">>
        \o toString10(rgb.g) \o <<",", " ">> \o toString10(rgb.b) \o <<",", " ">>
        \o toString10(a) \o <<")">>

hslToString(h, s, l) ==
    <<"h", "s", "l", "(">> \o toString10(MathRound(h, 1)) \o <<",", " ">>
    \o toString10(MathRound(s, 1)) \o <<"%", ",", " ">>
    \o toString10(MathRound(l, 1)) \o <<"%", ")">>

formats == <<"HEX", "RGBA", "HSL">>

getColorValue_defaultRgba(color, format) ==
    CASE format = "HEX" -> hslToHex(color.h, color.s, color.l)
      [] format = "RGBA" -> hslToRgba(color.h, color.s, color.l, 1)
      [] format = "HSL" -> hslToString(color.h, color.s, color.l)
      [] OTHER -> hslToRgba(color.h, color.s, color.l, 1)

\* hslToRgba is called without its fourth argument, which defaults to 1
getColorValue(color, format) ==
    CASE format = "HEX" -> hslToHex(color.h, color.s, color.l)
      [] format = "RGBA" -> hslToRgba(color.h, color.s, color.l, 1)
      [] format = "HSL" -> hslToString(color.h, color.s, color.l)
      [] OTHER -> hslToHex(color.h, color.s, color.l)

-----------------------------------------------------------------------------
(* Accessibility *)

\* For a channel value c in 0..255, entry c + 1 is 10^8 times
\*   c / 255 <= 0.03928 ? c / 255 / 12.92 : Math.pow((c / 255 + 0.055) / 1.055, 2.4)
\* rounded to the nearest integer
sRGB ==
    <<
      0, 30353, 60705, 91058, 121411, 151763,
      182116, 212469, 242822, 273174, 303527, 334654,
      367651, 402472, 439144, 477695, 518152, 560539,
      604883, 651209, 699541, 749903, 802319, 856813,
      913406, 972122, 1032982, 1096009, 1161225, 1228649,
      1298303, 1370208, 1444384, 1520851, 1599629, 1680738,
      1764195, 1850022, 1938236, 2028856, 2121901, 2217388,
      2315337, 2415763, 2518686, 2624122, 2732089, 2842604,
      2955683, 3071344, 3189603, 3310477, 3433981, 3560131,
      3688945, 3820437, 3954624, 4091520, 4231141, 4373503,
      4518620, 4666509, 4817182, 4970657, 5126946, 5286065,
      5448028, 5612849, 5780543, 5951124, 6124605, 6301002,
      6480327, 6662594, 6847817, 7036010, 7227185, 7421357,
      7618538, 7818742, 8021982, 8228271, 8437621, 8650046,
      8865559, 9084171, 9305896, 9530747, 9758735, 9989873,
      10224173, 10461648, 10702310, 10946171, 11193243, 11443537,
      11697067, 11953843, 12213877, 12477182, 12743768, 13013648,
      13286832, 13563333, 13843162, 14126329, 14412847, 14702727,
      14995979, 15292615, 15592646, 15896084, 16202938, 16513219,
      16826940, 17144110, 17464740, 17788842, 18116424, 18447499,
      18782077, 19120168, 19461783, 19806932, 20155625, 20507874,
      20863687, 21223076, 21586050, 21952620, 22322796, 22696587,
      23074005, 23455058, 23839757, 24228112, 24620133, 25015828,
      25415209, 25818285, 26225066, 26635560, 27049779, 27467731,
      27889426, 28314874, 28744084, 29177065, 29613827, 30054379,
      30498731, 30946892, 31398871, 31854678, 32314321, 32777810,
      33245154, 33716362, 34191442, 34670406, 35153260, 35640014,
      36130678, 36625260, 37123768, 37626212, 38132601, 38642943,
      39157248, 39675523, 40197778, 40724021, 41254261, 41788507,
      42326767, 42869050, 43415364, 43965717, 44520119, 45078578,
      45641102, 46207700, 46778380, 47353150, 47932018, 48514994,
      49102085, 49693300, 50288646, 50888132, 51491767, 52099557,
      52711513, 53327640, 53947949, 54572446, 55201140, 55834039,
      56471151, 57112483, 57758044, 58407842, 59061884, 59720179,
      60382734, 61049557, 61720656, 62396039, 63075714, 63759687,
      64447968, 65140564, 65837482, 66538730, 67244316, 67954247,
      68668531, 69387176, 70110189, 70837578, 71569350, 72305513,
      73046074, 73791041, 74540421, 75294222, 76052450, 76815115,
      77582222, 78353779, 79129794, 79910274, 80695226, 81484657,
      82278575, 83076988, 83879901, 84687323, 85499261, 86315721,
      87136712, 87962240, 88792312, 89626935, 90466117, 91309865,
      92158186, 93011086, 93868573, 94730654, 95597335, 96468625,
      97344529, 98225055, 99110210, 100000000
    >>

\* The luminance in units of 10^-8 and the rest in units of 10^-12; the two
\* halves of every table entry are weighted apart to stay within 32 bits
getRelativeLuminance(h, s, l) ==
    LET rgb == hslToRgb(h, s, l)
        high(c) == sRGB[c + 1] \div 10000
        low(c) == sRGB[c + 1] % 10000
        upper == 2126 * high(rgb.r) + 7152 * high(rgb.g) + 722 * high(rgb.b)
        lower == 2126 * low(rgb.r) + 7152 * low(rgb.g) + 722 * low(rgb.b)
    IN  [units |-> upper + lower \div 10000, rest |-> lower % 10000]

getTextColor_half(color) ==
    LET luminance == getRelativeLuminance(color.h, color.s, color.l)
    IN  IF luminance.units >= 50000000 THEN "dark" ELSE "light"

\* luminance > 0.179
getTextColor(color) ==
    LET luminance == getRelativeLuminance(color.h, color.s, color.l)
    IN  IF \/ luminance.units > 17900000
           \/ luminance.units = 17900000 /\ luminance.rest > 0
        THEN "dark"
        ELSE "light"

-----------------------------------------------------------------------------
(* Harmony rules *)

\* Math.random() returned rh/360, rs/360, rl/360 in turn
generateBaseColor_wide(rh, rs, rl) ==
    [h |-> (rh * 360) \div 360,
     s |-> 50 + (rs * 50) \div 360,
     l |-> 42 + (rl * 26) \div 360]

generateBaseColor(rh, rs, rl) ==
    [h |-> (rh * 360) \div 360,
     s |-> 55 + (rs * 35) \div 360,
     l |-> 42 + (rl * 26) \div 360]

normalizeHue_single(hue) == JsRem(hue, 360)

normalizeHue(hue) == JsRem(JsRem(hue, 360) + 360, 360)

generateMonochromatic_unclamped(baseColor) ==
    LET lightnessSteps == <<28, 42, 55, 68, 82>>
        saturationVariation == <<-8, -4, 0, 4, 8>>
    IN  [i \in 1..5 |->
            [h |-> baseColor.h,
             s |-> baseColor.s + saturationVariation[i],
             l |-> lightnessSteps[i]]]

generateMonochromatic(baseColor) ==
    LET lightnessSteps == <<28, 42, 55, 68, 82>>
        saturationVariation == <<-8, -4, 0, 4, 8>>
    IN  [i \in 1..5 |->
            [h |-> baseColor.h,
             s |-> Max2(25, Min2(100, baseColor.s + saturationVariation[i])),
             l |-> lightnessSteps[i]]]

generateComplementary_raw(baseColor) ==
    LET comp == baseColor.h + 180
    IN  << [h |-> baseColor.h, s |-> baseColor.s, l |-> 38],
           [h |-> baseColor.h, s |-> baseColor.s - 8, l |-> 55],
           [h |-> normalizeHue(baseColor.h + 30), s |-> baseColor.s - 20, l |-> 72],
           [h |-> comp, s |-> baseColor.s - 8, l |-> 55],
           [h |-> comp, s |-> baseColor.s, l |-> 38] >>

generateComplementary(baseColor) ==
    LET comp == normalizeHue(baseColor.h + 180)
    IN  << [h |-> baseColor.h, s |-> baseColor.s, l |-> 38],
           [h |-> baseColor.h, s |-> baseColor.s - 8, l |-> 55],
           [h |-> normalizeHue(baseColor.h + 30), s |-> baseColor.s - 20, l |-> 72],
           [h |-> comp, s |-> baseColor.s - 8, l |-> 55],
           [h |-> comp, s |-> baseColor.s, l |-> 38] >>

generateTriadic(baseColor) ==
    LET h1 == baseColor.h
        h2 == normalizeHue(baseColor.h + 120)
        h3 == normalizeHue(baseColor.h + 240)
    IN  << [h |-> h1, s |-> baseColor.s, l |-> 45],
           [h |-> h1, s |-> baseColor.s - 12, l |-> 65],
           [h |-> h2, s |-> baseColor.s, l |-> 52],
           [h |-> h3, s |-> baseColor.s, l |-> 52],
           [h |-> h3, s |-> baseColor.s - 12, l |-> 65] >>

generateAnalogous_clamped(baseColor) ==
    LET h1 == normalizeHue(baseColor.h - 30)
        h2 == normalizeHue(baseColor.h - 15)
        h3 == baseColor.h
        h4 == normalizeHue(baseColor.h + 15)
        h5 == normalizeHue(baseColor.h + 30)
    IN  << [h |-> h1, s |-> Max2(0, baseColor.s - 5), l |-> 40],
           [h |-> h2, s |-> baseColor.s, l |-> 50],
           [h |-> h3, s |-> Min2(100, baseColor.s + 5), l |-> 55],
           [h |-> h4, s |-> baseColor.s, l |-> 50],
           [h |-> h5, s |-> Max2(0, baseColor.s - 5), l |-> 60] >>

generateAnalogous(baseColor) ==
    LET h1 == normalizeHue(baseColor.h - 30)
        h2 == normalizeHue(baseColor.h - 15)
        h3 == baseColor.h
        h4 == normalizeHue(baseColor.h + 15)
        h5 == normalizeHue(baseColor.h + 30)
    IN  << [h |-> h1, s |-> baseColor.s - 5, l |-> 40],
           [h |-> h2, s |-> baseColor.s, l |-> 50],
           [h |-> h3, s |-> baseColor.s + 5, l |-> 55],
           [h |-> h4, s |-> baseColor.s, l |-> 50],
           [h |-> h5, s |-> baseColor.s - 5, l |-> 60] >>

generateSplitComplementary(baseColor) ==
    LET comp1 == normalizeHue(baseColor.h + 150)
        comp2 == normalizeHue(baseColor.h + 210)
    IN  << [h |-> baseColor.h, s |-> baseColor.s, l |-> 40],
           [h |-> baseColor.h, s |-> baseColor.s - 10, l |-> 60],
           [h |-> comp1, s |-> baseColor.s, l |-> 50],
           [h |-> comp2, s |-> baseColor.s, l |-> 50],
           [h |-> comp2, s |-> baseColor.s - 10, l |-> 65] >>

generateTetradic_shifted(baseColor) ==
    LET h1 == baseColor.h
        h2 == normalizeHue(baseColor.h + 90)
        h3 == normalizeHue(baseColor.h + 180)
        h4 == normalizeHue(baseColor.h + 270)
    IN  << [h |-> h1, s |-> baseColor.s, l |-> 45],
           [h |-> h2, s |-> baseColor.s - 8, l |-> 55],
           [h |-> h3, s |-> baseColor.s - 15, l |-> 70],
           [h |-> h3, s |-> baseColor.s, l |-> 50],
           [h |-> h4, s |-> baseColor.s - 8, l |-> 55] >>

generateTetradic(baseColor) ==
    LET h1 == baseColor.h
        h2 == normalizeHue(baseColor.h + 90)
        h3 == normalizeHue(baseColor.h + 180)
        h4 == normalizeHue(baseColor.h + 270)
    IN  << [h |-> h1, s |-> baseColor.s, l |-> 45],
           [h |-> h2, s |-> baseColor.s - 8, l |-> 55],
           [h |-> h2, s |-> baseColor.s - 15, l |-> 70],
           [h |-> h3, s |-> baseColor.s, l |-> 50],
           [h |-> h4, s |-> baseColor.s - 8, l |-> 55] >>

-----------------------------------------------------------------------------
(* Palette generation *)

\* Outcomes d/360 of the calls of Math.random() in generateBaseColor
HueDraws == {0, 359}
SatDraws == {200}
LightDraws == {200}
\* Outcomes d/360 of the call of Math.random() that picks a harmony
IndexDraws == {0, 60, 120, 180, 240, 300}

\* What a clicked .harmony-option may carry in data-harmony: the handler stores
\* it unvalidated; "pastel" stands for a value outside CONFIG.harmonies
HarmonyOptions == Harmonies \cup {"random", "pastel"}

\* Math.random() is called for the harmony only when 'random' is selected
IndexDrawsFor(selected) == IF selected = "random" THEN IndexDraws ELSE {0}

AllUnlocked == [i \in Columns |-> FALSE]

selectHarmonyKind_alwaysRandom(selected, ri) ==
    harmonies[((ri * Len(harmonies)) \div 360) + 1]

\* Math.random() returned ri/360
selectHarmonyKind(selected, ri) ==
    IF selected = "random"
    THEN LET harmonyIndex == (ri * Len(harmonies)) \div 360
         IN  harmonies[harmonyIndex + 1]
    ELSE selected

harmonyRule_nodefault(harmonyType, baseColor) ==
    CASE harmonyType = "monochromatic" -> generateMonochromatic(baseColor)
      [] harmonyType = "complementary" -> generateComplementary(baseColor)
      [] harmonyType = "analogous" -> generateAnalogous(baseColor)
      [] harmonyType = "triadic" -> generateTriadic(baseColor)
      [] harmonyType = "split-complementary" -> generateSplitComplementary(baseColor)
      [] harmonyType = "tetradic" -> generateTetradic(baseColor)
      [] OTHER -> <<>>

harmonyRule_swapped(harmonyType, baseColor) ==
    CASE harmonyType = "monochromatic" -> generateMonochromatic(baseColor)
      [] harmonyType = "complementary" -> generateComplementary(baseColor)
      [] harmonyType = "analogous" -> generateTriadic(baseColor)
      [] harmonyType = "triadic" -> generateAnalogous(baseColor)
      [] harmonyType = "split-complementary" -> generateSplitComplementary(baseColor)
      [] harmonyType = "tetradic" -> generateTetradic(baseColor)
      [] OTHER -> generateMonochromatic(baseColor)

harmonyRule(harmonyType, baseColor) ==
    CASE harmonyType = "monochromatic" -> generateMonochromatic(baseColor)
      [] harmonyType = "complementary" -> generateComplementary(baseColor)
      [] harmonyType = "analogous" -> generateAnalogous(baseColor)
      [] harmonyType = "triadic" -> generateTriadic(baseColor)
      [] harmonyType = "split-complementary" -> generateSplitComplementary(baseColor)
      [] harmonyType = "tetradic" -> generateTetradic(baseColor)
      [] OTHER -> generateMonochromatic(baseColor)

mergeLocked_ignoreLocks(newColors, locked, prev) == newColors

mergeLocked_shifted(newColors, locked, prev) ==
    [i \in 1..Len(newColors) |->
        IF i < Len(newColors) /\ locked[i + 1] /\ i \in DOMAIN prev
        THEN prev[i]
        ELSE newColors[i]]

\* prev[i] is an object (truthy) when it exists and undefined otherwise
mergeLocked(newColors, locked, prev) ==
    [i \in 1..Len(newColors) |->
        IF locked[i] /\ i \in DOMAIN prev THEN prev[i] ELSE newColors[i]]

\* The call reads state.selectedHarmony, state.lockedColors and state.colors;
\* baseColor is what generateBaseColor() returned
generatePalette(selected, locked, prev, baseColor, ri) ==
    LET harmonyType == selectHarmonyKind(selected, ri)
        newColors == harmonyRule(harmonyType, baseColor)
    IN  [baseColor |-> baseColor,
         selected |-> selected,
         locked |-> locked,
         prev |-> prev,
         harmonyType |-> harmonyType,
         newColors |-> newColors,
         colors |-> mergeLocked(newColors, locked, prev)]

-----------------------------------------------------------------------------
(* The application *)

NoCall == [made |-> FALSE]

Views == {"generator", "saved", "about"}

\* JavaScript null
Null == [null |-> TRUE]

\* no handler has run yet
NoHandler == [name |-> "none"]

\* a handler that neither reads nor writes state.savedPalettes
Other == [name |-> "other"]

storageKey == "colorCap_savedPalettes"

\* `${CONFIG.storageKey}_${userId}`
getStorageKey(user) ==
    LET userId == IF user # Null THEN toString10(user.id)
                  ELSE <<"g", "u", "e", "s", "t">>
    IN  <<storageKey, "_">> \o userId

\* localStorage.getItem(key) followed by JSON.parse, [] when there is no item
getItemOrEmpty(key) == IF key \in DOMAIN storage THEN storage[key] ELSE <<>>

\* localStorage after setItem(key, JSON.stringify(list))
setItem(key, list) ==
    [k \in DOMAIN storage \cup {key} |-> IF k = key THEN list ELSE storage[k]]

savePalettesToStorage(list) ==
    storage' = setItem(getStorageKey(currentUser), list)

FnIdle == fnPc = "idle" /\ fnArgs = <<>> /\ fnRes = <<>>

AppLoading ==
    /\ pc = "loading"
    /\ colors = <<>>
    /\ currentHarmony = ""
    /\ selectedHarmony = "random"
    /\ selectedFormats = [i \in Columns |-> "HEX"]
    /\ lockedColors = AllUnlocked
    /\ lockedClass = AllUnlocked
    /\ savedPalettes = <<>>
    /\ currentView = "generator"
    /\ currentUser = Null
    /\ users = <<>>
    /\ storage = <<>>
    /\ pending = <<>>
    /\ savedUnder = {}
    /\ clock = 0
    /\ call = NoCall
    /\ last = NoHandler
    /\ steps = 0

themeVars == <<theme, dataTheme, storedTheme, prefersDark, userChose>>

\* A first visit on a system that prefers dark: no theme is stored; the
\* attribute is the one of the page as delivered
ThemeDefault ==
    /\ theme = "dark"
    /\ dataTheme = "unset"
    /\ storedTheme = <<>>
    /\ prefersDark = TRUE
    /\ userChose = FALSE

Init == AppLoading /\ ThemeDefault /\ FnIdle

schemeOf(dark) == IF dark THEN "dark" ELSE "light"

\* applyTheme(theme): the attribute, the state and localStorage
applyTheme(newTheme) ==
    /\ dataTheme' = newTheme
    /\ theme' = newTheme
    /\ storedTheme' = <<newTheme>>

\* initializeTheme(): the stored theme if there is one, else the system's
initializeTheme ==
    applyTheme(IF storedTheme # <<>> THEN storedTheme[1] ELSE schemeOf(prefersDark))

\* generatePalette() with state.selectedHarmony = selected, then the two
\* assignments of handleGenerate
Generate(selected) ==
    \E rh \in HueDraws, rs \in SatDraws, rl \in LightDraws,
       ri \in IndexDrawsFor(selected) :
        LET res == generatePalette(selected, lockedColors, colors,
                                   generateBaseColor(rh, rs, rl), ri)
        IN  /\ colors' = res.colors
            /\ currentHarmony' = res.harmonyType
            /\ call' = res

\* what no handler of the palette generator touches
authVars == <<currentUser, users, pending>>

\* init(): localStorage holds no current user and no palette list; the
\* columns are rendered from state.lockedColors; then the first generation
init ==
    /\ pc = "loading"
    /\ pc' = "ready"
    /\ currentUser' = Null
    /\ lockedClass' = lockedColors
    /\ savedPalettes' = getItemOrEmpty(getStorageKey(currentUser'))
    /\ Generate(selectedHarmony)
    /\ initializeTheme
    /\ last' = Other
    /\ UNCHANGED <<selectedHarmony, selectedFormats, lockedColors, currentView,
                   users, pending, storage, savedUnder, clock, steps>>
    /\ UNCHANGED <<prefersDark, userChose>>
    /\ UNCHANGED fnVars

Event ==
    /\ pc = "ready"
    /\ steps < MaxSteps
    /\ steps' = steps + 1
    /\ UNCHANGED <<pc, fnVars>>

handleGenerate_unlocking ==
    /\ Event
    /\ UNCHANGED themeVars
    /\ Generate(selectedHarmony)
    /\ lockedColors' = AllUnlocked
    /\ last' = Other
    /\ UNCHANGED <<selectedHarmony, selectedFormats, lockedClass,
                   savedPalettes, currentView, storage, savedUnder, clock, authVars>>

\* updateAllColumns() sets background, text and text class of each column
handleGenerate ==
    /\ Event
    /\ UNCHANGED themeVars
    /\ Generate(selectedHarmony)
    /\ last' = Other
    /\ UNCHANGED <<selectedHarmony, selectedFormats, lockedColors, lockedClass,
                   savedPalettes, currentView, storage, savedUnder, clock, authVars>>

harmonyOptionClick ==
    /\ Event
    /\ UNCHANGED themeVars
    /\ \E harmony \in HarmonyOptions :
         /\ selectedHarmony' = harmony
         /\ Generate(harmony)
    /\ last' = Other
    /\ UNCHANGED <<selectedFormats, lockedColors, lockedClass, savedPalettes,
                   currentView, storage, savedUnder, clock, authVars>>

\* updateLockButton(index) sets the classes to the new state.lockedColors[index]
handleLockToggle ==
    /\ Event
    /\ UNCHANGED themeVars
    /\ \E index \in Columns :
         /\ lockedColors' = [lockedColors EXCEPT ![index] = ~lockedColors[index]]
         /\ lockedClass' = [lockedClass EXCEPT ![index] = lockedColors'[index]]
    /\ last' = Other
    /\ UNCHANGED <<colors, currentHarmony, selectedHarmony, selectedFormats,
                   savedPalettes, currentView, storage, savedUnder, clock, call,
                   authVars>>

\* The columns whose format menu is used: the first and the last
MenuColumns == {1, columnCount}

\* the items of a column's menu carry data-format HEX, RGBA and HSL
handleFormatSelect ==
    /\ Event
    /\ UNCHANGED themeVars
    /\ \E index \in MenuColumns, i \in 1..Len(formats) :
         selectedFormats' = [selectedFormats EXCEPT ![index] = formats[i]]
    /\ last' = Other
    /\ UNCHANGED <<colors, currentHarmony, selectedHarmony, lockedColors, lockedClass,
                   savedPalettes, currentView, storage, savedUnder, clock, call,
                   authVars>>

\* the text goes to the clipboard, the button shows a tick for a while
handleCopy ==
    /\ Event
    /\ UNCHANGED themeVars
    /\ last' = Other
    /\ UNCHANGED <<colors, currentHarmony, selectedHarmony, selectedFormats,
                   lockedColors, lockedClass, savedPalettes, currentView, storage,
                   savedUnder, clock, call, authVars>>

saveCurrentPalette_appending ==
    /\ Event
    /\ UNCHANGED themeVars
    /\ IF Len(colors) = 0
       THEN UNCHANGED <<savedPalettes, storage, savedUnder, clock>>
       ELSE \E now \in clock..MaxClock :
              LET palette == [id |-> now, colors |-> colors, harmony |-> currentHarmony]
              IN  /\ clock' = now
                  /\ savedPalettes' = savedPalettes \o <<palette>>
                  /\ savePalettesToStorage(savedPalettes')
                  /\ savedUnder' = savedUnder \cup {<<getStorageKey(currentUser), palette>>}
    /\ last' = [name |-> "saveCurrentPalette"]
    /\ UNCHANGED <<colors, currentHarmony, selectedHarmony, selectedFormats,
                   lockedColors, lockedClass, currentView, call, authVars>>

\* Date.now() does not run backwards; the display date of a record is left out
saveCurrentPalette ==
    /\ Event
    /\ UNCHANGED themeVars
    /\ IF Len(colors) = 0
       THEN UNCHANGED <<savedPalettes, storage, savedUnder, clock>>
       ELSE \E now \in clock..MaxClock :
              LET palette == [id |-> now, colors |-> colors, harmony |-> currentHarmony]
              IN  /\ clock' = now
                  /\ savedPalettes' = <<palette>> \o savedPalettes
                  /\ savePalettesToStorage(savedPalettes')
                  /\ savedUnder' = savedUnder \cup {<<getStorageKey(currentUser), palette>>}
    /\ last' = [name |-> "saveCurrentPalette"]
    /\ UNCHANGED <<colors, currentHarmony, selectedHarmony, selectedFormats,
                   lockedColors, lockedClass, currentView, call, authVars>>

SavedIds == {savedPalettes[i].id : i \in 1..Len(savedPalettes)}

\* the delete button of a rendered card carries the id of a saved record
deletePalette ==
    /\ Event
    /\ UNCHANGED themeVars
    /\ \E id \in SavedIds :
         /\ savedPalettes' = SelectSeq(savedPalettes, LAMBDA p : p.id # id)
         /\ last' = [name |-> "deletePalette", id |-> id]
    /\ savePalettesToStorage(savedPalettes')
    /\ UNCHANGED <<colors, currentHarmony, selectedHarmony, selectedFormats,
                   lockedColors, lockedClass, currentView, savedUnder, clock, call,
                   authVars>>

\* Array.prototype.find: the first record with the id
FindPalette(id) ==
    LET hits == {i \in 1..Len(savedPalettes) : savedPalettes[i].id = id}
    IN  savedPalettes[CHOOSE i \in hits : \A j \in hits : i <= j]

loadPalette_consuming ==
    /\ Event
    /\ UNCHANGED themeVars
    /\ \E id \in 0..MaxClock :
         /\ last' = [name |-> "loadPalette", id |-> id]
         /\ IF id \in SavedIds
            THEN LET palette == FindPalette(id)
                 IN  /\ colors' = palette.colors
                     /\ currentHarmony' = palette.harmony
                     /\ lockedColors' = AllUnlocked
                     /\ currentView' = "generator"
                     /\ savedPalettes' = SelectSeq(savedPalettes, LAMBDA p : p # palette)
            ELSE UNCHANGED <<colors, currentHarmony, lockedColors, currentView,
                             savedPalettes>>
    /\ UNCHANGED <<selectedHarmony, selectedFormats, lockedClass,
                   storage, savedUnder, clock, call, authVars>>

loadPalette_keepingLocks ==
    /\ Event
    /\ UNCHANGED themeVars
    /\ \E id \in 0..MaxClock :
         /\ last' = [name |-> "loadPalette", id |-> id]
         /\ IF id \in SavedIds
            THEN LET palette == FindPalette(id)
                 IN  /\ colors' = palette.colors
                     /\ currentHarmony' = palette.harmony
                     /\ currentView' = "generator"
            ELSE UNCHANGED <<colors, currentHarmony, currentView>>
    /\ UNCHANGED <<selectedHarmony, selectedFormats, lockedColors, lockedClass,
                   savedPalettes, storage, savedUnder, clock, call, authVars>>

\* loadPalette(id) for any id; updateAllColumns() and updateHarmonyIndicator()
\* follow the assignments, updateLockButton() is not called
loadPalette ==
    /\ Event
    /\ UNCHANGED themeVars
    /\ \E id \in 0..MaxClock :
         /\ last' = [name |-> "loadPalette", id |-> id]
         /\ IF id \in SavedIds
            THEN LET palette == FindPalette(id)
                 IN  /\ colors' = palette.colors
                     /\ currentHarmony' = palette.harmony
                     /\ lockedColors' = AllUnlocked
                     /\ currentView' = "generator"
            ELSE UNCHANGED <<colors, currentHarmony, lockedColors, currentView>>
    /\ UNCHANGED <<selectedHarmony, selectedFormats, lockedClass, savedPalettes,
                   storage, savedUnder, clock, call, authVars>>

clearAllPalettes ==
    /\ Event
    /\ UNCHANGED themeVars
    /\ IF Len(savedPalettes) = 0
       THEN UNCHANGED <<savedPalettes, storage>>
       ELSE /\ savedPalettes' = <<>>
            /\ savePalettesToStorage(savedPalettes')
    /\ last' = [name |-> "clearAllPalettes"]
    /\ UNCHANGED <<colors, currentHarmony, selectedHarmony, selectedFormats,
                   lockedColors, lockedClass, currentView, savedUnder, clock, call,
                   authVars>>

showView ==
    /\ Event
    /\ UNCHANGED themeVars
    /\ \E viewName \in Views : currentView' = viewName
    /\ last' = Other
    /\ UNCHANGED <<colors, currentHarmony, selectedHarmony, selectedFormats,
                   lockedColors, lockedClass, savedPalettes, storage, savedUnder,
                   clock, call, authVars>>

Next ==
    \/ init
    \/ handleGenerate
    \/ harmonyOptionClick
    \/ handleLockToggle
    \/ handleFormatSelect
    \/ handleCopy
    \/ saveCurrentPalette
    \/ deletePalette
    \/ loadPalette
    \/ clearAllPalettes
    \/ showView

\* a session of the guest: no signup, login or logout
Spec == Init /\ [][Next]_vars

-----------------------------------------------------------------------------
(* Accounts *)

UpperCaseLetters ==
    <<"A", "B", "C", "D", "E", "F", "G", "H", "I", "J", "K", "L", "M",
      "N", "O", "P", "Q", "R", "S", "T", "U", "V", "W", "X", "Y", "Z">>

LowerCaseLetters ==
    <<"a", "b", "c", "d", "e", "f", "g", "h", "i", "j", "k", "l", "m",
      "n", "o", "p", "q", "r", "s", "t", "u", "v", "w", "x", "y", "z">>

DecimalDigits == {"0", "1", "2", "3", "4", "5", "6", "7", "8", "9"}

\* \s of a regular expression, among the characters of the form values drawn
WhiteSpace == {" ", "\t", "\n"}

RangeOf(str) == {str[i] : i \in 1..Len(str)}

toLowerCaseChar(ch) ==
    IF \E i \in 1..26 : UpperCaseLetters[i] = ch
    THEN LowerCaseLetters[CHOOSE i \in 1..26 : UpperCaseLetters[i] = ch]
    ELSE ch

\* String.prototype.toLowerCase
toLowerCase(str) == [i \in 1..Len(str) |-> toLowerCaseChar(str[i])]

RECURSIVE trimStart(_)
trimStart(str) ==
    IF str # <<>> /\ Head(str) \in WhiteSpace THEN trimStart(Tail(str)) ELSE str

RECURSIVE trimEnd(_)
trimEnd(str) ==
    IF str # <<>> /\ str[Len(str)] \in WhiteSpace
    THEN trimEnd(SubSeq(str, 1, Len(str) - 1))
    ELSE str

\* String.prototype.trim
trim(str) == trimEnd(trimStart(str))

\* a form value is a string: trim, remove angle brackets, keep 255 characters
sanitizeInput(input) ==
    LET stripped == SelectSeq(trim(input), LAMBDA ch : ch \notin {"<", ">"})
    IN  SubSeq(stripped, 1, Min2(Len(stripped), 255))

\* /^[^\s@]+@[^\s@]+\.[^\s@]+$/: one "@" that is not the first character, no
\* white space, and after the "@" a "." with a character on each side of it
isValidEmail(email) ==
    \E a \in 2..Len(email) :
        /\ email[a] = "@"
        /\ \A i \in (1..Len(email)) \ {a} : email[i] \notin WhiteSpace \cup {"@"}
        /\ \E d \in (a + 2)..(Len(email) - 1) : email[d] = "."

\* the message of validatePassword, "" when the password is valid
validatePassword(password) ==
    IF Len(password) < 8 THEN "Password must be at least 8 characters"
    ELSE IF RangeOf(password) \cap RangeOf(UpperCaseLetters) = {}
    THEN "Password must contain an uppercase letter"
    ELSE IF RangeOf(password) \cap RangeOf(LowerCaseLetters) = {}
    THEN "Password must contain a lowercase letter"
    ELSE IF RangeOf(password) \cap DecimalDigits = {}
    THEN "Password must contain a number"
    ELSE ""

passwordSalt == "ColorCap_2026_SecureApp"

\* SHA-256 of password + salt: equal digests for equal inputs only
hashPassword(password) == <<"SHA-256", password, passwordSalt>>

\* users.find(u => u.email.toLowerCase() === email.toLowerCase())
Registered(list, email) ==
    \E i \in 1..Len(list) : toLowerCase(list[i].email) = toLowerCase(email)

\* The checks of signup before its await, on the sanitized name and email:
\* the message of the failure, "" when there is none
signupFailure_unchecked(name, email, password, list) ==
    IF name = <<>> \/ email = <<>> \/ password = <<>> THEN "Please fill all fields"
    ELSE IF Len(name) < 2 \/ Len(name) > 50 THEN "Name must be 2-50 characters"
    ELSE IF ~isValidEmail(email) THEN "Invalid email format"
    ELSE IF validatePassword(password) # "" THEN validatePassword(password)
    ELSE ""

signupFailure(name, email, password, list) ==
    IF name = <<>> \/ email = <<>> \/ password = <<>> THEN "Please fill all fields"
    ELSE IF Len(name) < 2 \/ Len(name) > 50 THEN "Name must be 2-50 characters"
    ELSE IF ~isValidEmail(email) THEN "Invalid email format"
    ELSE IF validatePassword(password) # "" THEN validatePassword(password)
    ELSE IF Registered(list, email) THEN "Email already registered"
    ELSE ""

\* the user without the password; createdAt is left out of the records
userWithoutPassword(user) == [id |-> user.id, name |-> user.name, email |-> user.email]

\* setCurrentUser(user): localStorage's current user and state.currentUser;
\* state.savedPalettes is not reloaded
setCurrentUser(user) == currentUser' = user

paletteVars == <<colors, currentHarmony, selectedHarmony, selectedFormats,
                 lockedColors, lockedClass, savedPalettes, currentView, storage,
                 savedUnder, call>>

Ann == <<"A", "n", "n">>

Bob == <<"B", "o", "b">>

AnnEmail == <<"a", "n", "n", "@", "x", ".", "i", "o">>

BobEmail == <<"b", "o", "b", "@", "x", ".", "i", "o">>

Passw0rd1 == <<"P", "a", "s", "s", "w", "0", "r", "d", "1">>

Passw0rd2 == <<"P", "a", "s", "s", "w", "0", "r", "d", "2">>

\* What is typed into the signup form: three forms that pass every check (the
\* second has the email of the first in capitals, between spaces and with an
\* angle bracket), then one form for every check that fails
SignupForms ==
    { [name |-> Ann, email |-> AnnEmail, password |-> Passw0rd1],
      [name |-> Ann, email |-> <<" ", "A", "N", "N", "<", "@", "x", ".", "i", "o", " ">>,
       password |-> Passw0rd1],
      [name |-> Bob, email |-> BobEmail, password |-> Passw0rd2],
      [name |-> <<" ", "<", ">">>, email |-> AnnEmail, password |-> Passw0rd1],
      [name |-> Ann, email |-> BobEmail, password |-> <<>>],
      [name |-> <<"A">>, email |-> AnnEmail, password |-> Passw0rd1],
      [name |-> [i \in 1..51 |-> "x"], email |-> AnnEmail, password |-> Passw0rd1],
      [name |-> Ann, email |-> <<"a", "n", "n", "@", "x", "i", "o">>,
       password |-> Passw0rd1],
      [name |-> Ann, email |-> <<"a", " ", "n", "@", "x", ".", "i", "o">>,
       password |-> Passw0rd1],
      [name |-> Ann, email |-> AnnEmail, password |-> <<"P", "w", "0", "r", "d">>],
      [name |-> Ann, email |-> AnnEmail,
       password |-> <<"p", "a", "s", "s", "w", "0", "r", "d", "1">>],
      [name |-> Ann, email |-> AnnEmail,
       password |-> <<"P", "A", "S", "S", "W", "0", "R", "D", "1">>],
      [name |-> Ann, email |-> AnnEmail,
       password |-> <<"P", "a", "s", "s", "w", "o", "r", "d", "s">>] }

\* What is typed into the login form
LoginForms ==
    { [email |-> AnnEmail, password |-> Passw0rd1],
      [email |-> <<" ", "A", "N", "N", "<", "@", "x", ".", "i", "o", " ">>,
       password |-> Passw0rd1],
      [email |-> BobEmail, password |-> Passw0rd2],
      [email |-> AnnEmail, password |-> Passw0rd2],
      [email |-> <<" ">>, password |-> Passw0rd1],
      [email |-> AnnEmail, password |-> <<>>] }

\* the calls in flight without the one at position i
Without(calls, i) == SubSeq(calls, 1, i - 1) \o SubSeq(calls, i + 1, Len(calls))

signupSubmit_clearing ==
    /\ Event
    /\ UNCHANGED themeVars
    /\ Len(pending) < MaxPending
    /\ \E form \in SignupForms :
         LET name == sanitizeInput(form.name)
             email == sanitizeInput(form.email)
             message == signupFailure(name, email, form.password, users)
         IN  IF message # ""
             THEN /\ UNCHANGED pending
                  /\ setCurrentUser(Null)
                  /\ last' = [name |-> "signup", success |-> FALSE,
                              message |-> message, form |-> form]
             ELSE /\ pending' = Append(pending,
                                       [fn |-> "signup", users |-> users, name |-> name,
                                        email |-> email, password |-> form.password])
                  /\ UNCHANGED currentUser
                  /\ last' = Other
    /\ UNCHANGED <<paletteVars, users, clock>>

\* signup(name, email, password) up to its await of hashPassword, or to the
\* return of a failure
signupSubmit ==
    /\ Event
    /\ UNCHANGED themeVars
    /\ Len(pending) < MaxPending
    /\ \E form \in SignupForms :
         LET name == sanitizeInput(form.name)
             email == sanitizeInput(form.email)
             message == signupFailure(name, email, form.password, users)
         IN  IF message # ""
             THEN /\ UNCHANGED pending
                  /\ last' = [name |-> "signup", success |-> FALSE,
                              message |-> message, form |-> form]
             ELSE /\ pending' = Append(pending,
                                       [fn |-> "signup", users |-> users, name |-> name,
                                        email |-> email, password |-> form.password])
                  /\ last' = Other
    /\ UNCHANGED <<paletteVars, currentUser, users, clock>>

\* signup after hashPassword: users.push, saveUsers(users), setCurrentUser and
\* the return of the success
signupResume ==
    /\ pc = "ready"
    /\ UNCHANGED themeVars
    /\ \E i \in 1..Len(pending), now \in clock..MaxClock :
         LET p == pending[i]
             newUser == [id |-> now, name |-> p.name, email |-> toLowerCase(p.email),
                         password |-> hashPassword(p.password)]
         IN  /\ p.fn = "signup"
             /\ users' = Append(p.users, newUser)
             /\ setCurrentUser(userWithoutPassword(newUser))
             /\ clock' = now
             /\ pending' = Without(pending, i)
             /\ last' = [name |-> "signup", success |-> TRUE, read |-> p.users,
                         user |-> newUser]
    /\ UNCHANGED <<paletteVars, pc, steps, fnVars>>

\* login(email, password) up to its await of hashPassword, or to the return of
\* the failure for an empty field
loginSubmit ==
    /\ Event
    /\ UNCHANGED themeVars
    /\ Len(pending) < MaxPending
    /\ \E form \in LoginForms :
         LET email == sanitizeInput(form.email)
         IN  IF email = <<>> \/ form.password = <<>>
             THEN /\ UNCHANGED pending
                  /\ last' = [name |-> "login", success |-> FALSE, read |-> users,
                              form |-> form]
             ELSE /\ pending' = Append(pending,
                                       [fn |-> "login", users |-> users, form |-> form,
                                        email |-> email, password |-> form.password])
                  /\ last' = Other
    /\ UNCHANGED <<paletteVars, currentUser, users, clock>>

\* users.find(u => email and digest are equal): the positions of such users
Matches(list, email, password) ==
    {i \in 1..Len(list) :
        /\ toLowerCase(list[i].email) = toLowerCase(email)
        /\ list[i].password = hashPassword(password)}

loginResume_anyPassword ==
    /\ pc = "ready"
    /\ UNCHANGED themeVars
    /\ \E i \in 1..Len(pending) :
         LET p == pending[i]
             hits == {j \in 1..Len(p.users) :
                         toLowerCase(p.users[j].email) = toLowerCase(p.email)}
         IN  /\ p.fn = "login"
             /\ IF hits = {}
                THEN UNCHANGED currentUser
                ELSE setCurrentUser(userWithoutPassword(
                         p.users[CHOOSE j \in hits : \A k \in hits : j <= k]))
             /\ pending' = Without(pending, i)
             /\ last' = [name |-> "login", success |-> hits # {}, read |-> p.users,
                         form |-> p.form]
    /\ UNCHANGED <<paletteVars, users, clock, pc, steps, fnVars>>

\* login after hashPassword: the first user with the email and the digest
\* becomes the current user
loginResume ==
    /\ pc = "ready"
    /\ UNCHANGED themeVars
    /\ \E i \in 1..Len(pending) :
         LET p == pending[i]
             hits == Matches(p.users, p.email, p.password)
         IN  /\ p.fn = "login"
             /\ IF hits = {}
                THEN UNCHANGED currentUser
                ELSE setCurrentUser(userWithoutPassword(
                         p.users[CHOOSE j \in hits : \A k \in hits : j <= k]))
             /\ pending' = Without(pending, i)
             /\ last' = [name |-> "login", success |-> hits # {}, read |-> p.users,
                         form |-> p.form]
    /\ UNCHANGED <<paletteVars, users, clock, pc, steps, fnVars>>

logout ==
    /\ Event
    /\ UNCHANGED themeVars
    /\ setCurrentUser(Null)
    /\ last' = Other
    /\ UNCHANGED <<paletteVars, users, pending, clock>>

UserNext ==
    \/ init
    \/ handleGenerate
    \/ saveCurrentPalette
    \/ deletePalette
    \/ clearAllPalettes
    \/ signupSubmit
    \/ signupResume
    \/ loginSubmit
    \/ loginResume
    \/ logout

\* a session in which accounts are created and used
UserSpec == Init /\ [][UserNext]_vars

-----------------------------------------------------------------------------
(* The theme *)

allButTheme == <<colors, currentHarmony, selectedHarmony, selectedFormats,
                 lockedColors, lockedClass, savedPalettes, currentView, currentUser,
                 users, pending, storage, savedUnder, clock, call>>

\* the click on the theme button, or the key T
toggleTheme ==
    /\ pc = "ready"
    /\ steps < MaxSteps
    /\ steps' = steps + 1
    /\ applyTheme(IF theme = "dark" THEN "light" ELSE "dark")
    /\ userChose' = TRUE
    /\ last' = Other
    /\ UNCHANGED <<allButTheme, prefersDark, pc, fnVars>>

\* The system's preference changes: the listener of watchSystemTheme() applies
\* the new preference when localStorage holds no theme
systemSchemeChange ==
    /\ pc = "ready"
    /\ steps < MaxSteps
    /\ steps' = steps + 1
    /\ prefersDark' = ~prefersDark
    /\ IF storedTheme = <<>>
       THEN applyTheme(schemeOf(prefersDark'))
       ELSE UNCHANGED <<theme, dataTheme, storedTheme>>
    /\ last' = Other
    /\ UNCHANGED <<allButTheme, userChose, pc, fnVars>>

\* A theme found in localStorage at the start of a visit counts as the user's
\* choice on an earlier visit
ThemeInit ==
    /\ AppLoading
    /\ FnIdle
    /\ theme = "dark"
    /\ dataTheme = "unset"
    /\ storedTheme \in {<<>>, <<"dark">>, <<"light">>}
    /\ prefersDark \in BOOLEAN
    /\ userChose = (storedTheme # <<>>)

ThemeNext ==
    \/ init
    \/ toggleTheme
    \/ systemSchemeChange
    \/ handleGenerate

\* visits in which the theme is toggled and the system's preference changes
ThemeSpec == ThemeInit /\ [][ThemeNext]_vars

-----------------------------------------------------------------------------
(* The pure functions, applied to inputs drawn beyond their documented ranges *)

HueInputs ==
    {15 * j + d : j \in (-24 * MaxTurns)..(24 * MaxTurns), d \in {0, 7}}

PercentInputs ==
    {p \in 0..100 : p % 10 = 0} \cup {-PercentMargin, 100 + PercentMargin}

TurnInputs == (-MaxTurns)..MaxTurns

\* A palette on display before the call, unlike anything a rule derives
PrevPalette == [i \in Columns |-> [h |-> i, s |-> 1, l |-> 1]]

FirstLocked == [i \in Columns |-> i = 1]

LockInputs == {AllUnlocked, FirstLocked}

\* The format tags of the menu and two that are not among them
FormatInputs == {formats[i] : i \in 1..Len(formats)} \cup {"CMYK", "hex"}

\* Base colours as generateBaseColor samples them: every whole saturation of
\* its range, the ends and the middle of the hue and lightness ranges
BaseHues == {0, 1, 179, 180, 359}

BaseSaturations == 55..90

BaseLightnesses == {42, 55, 68}

\* Outcomes d/360 of Math.random(), the least and the greatest among them
RandomDraws == {0, 1, 120, 240, 358, 359}

FnInit ==
    /\ AppLoading
    /\ ThemeDefault
    /\ fnPc = "input"
    /\ fnRes = <<>>
    /\ \/ fnArgs \in [h : HueInputs, s : {0}, l : {0}, k : TurnInputs,
                       random : {<<0, 0, 0>>}]
       \/ fnArgs \in [h : HueInputs, s : PercentInputs, l : PercentInputs, k : {0},
                       random : {<<0, 0, 0>>}]
       \/ fnArgs \in [h : {0}, s : {0}, l : {0}, k : {0},
                       random : RandomDraws \X RandomDraws \X RandomDraws]
       \/ fnArgs \in [h : BaseHues, s : BaseSaturations, l : BaseLightnesses,
                       k : {0}, random : {<<0, 0, 0>>}]

Apply(fn) ==
    /\ fnPc = "input"
    /\ fnPc' = fn
    /\ UNCHANGED <<fnArgs, appVars>>

call_normalizeHue ==
    /\ Apply("normalizeHue")
    /\ fnRes' = [of_h |-> normalizeHue(fnArgs.h),
                 of_shifted |-> normalizeHue(fnArgs.h + 360 * fnArgs.k)]

call_hslToRgb ==
    /\ Apply("hslToRgb")
    /\ fnRes' = hslToRgb(fnArgs.h, fnArgs.s, fnArgs.l)

call_hslToHex ==
    /\ Apply("hslToHex")
    /\ fnRes' = hslToHex(fnArgs.h, fnArgs.s, fnArgs.l)

\* generatePalette() where generateBaseColor() returned the colour of fnArgs
call_generatePalette ==
    /\ Apply("generatePalette")
    /\ \E selected \in Harmonies \cup {"pastel"}, locked \in LockInputs :
         fnRes' = generatePalette(selected, locked,
                                  IF locked = AllUnlocked THEN <<>> ELSE PrevPalette,
                                  [h |-> fnArgs.h, s |-> fnArgs.s, l |-> fnArgs.l], 0)

call_getColorValue ==
    /\ Apply("getColorValue")
    /\ \E format \in FormatInputs :
         fnRes' = [format |-> format,
                   value |-> getColorValue([h |-> fnArgs.h, s |-> fnArgs.s,
                                            l |-> fnArgs.l], format)]

\* getTextColor is applied to the colours hslToRgb maps into 0..255
call_getTextColor ==
    /\ Apply("getTextColor")
    /\ LET rgb == hslToRgb(fnArgs.h, fnArgs.s, fnArgs.l)
       IN  {rgb.r, rgb.g, rgb.b} \subseteq 0..255
    /\ fnRes' = [text |-> getTextColor([h |-> fnArgs.h, s |-> fnArgs.s, l |-> fnArgs.l]),
                 luminance |-> getRelativeLuminance(fnArgs.h, fnArgs.s, fnArgs.l)]

call_generateBaseColor ==
    /\ Apply("generateBaseColor")
    /\ fnRes' = generateBaseColor(fnArgs.random[1], fnArgs.random[2], fnArgs.random[3])

FnNext ==
    \/ call_normalizeHue
    \/ call_hslToRgb
    \/ call_hslToHex
    \/ call_generatePalette
    \/ call_getColorValue
    \/ call_getTextColor
    \/ call_generateBaseColor

FnSpec == FnInit /\ [][FnNext]_vars

-----------------------------------------------------------------------------
(* Claims about palette generation *)

\* C1: in every call of generatePalette, for every harmony kind, base colour and
\* position i, the returned colour at i is the previous colour at i when
\* lockedColors[i] is true and a previous colour exists there, and otherwise the
\* colour the harmony rule freshly derived for position i.
C1_LockMerge ==
    pc = "ready" =>
        \A i \in Columns :
            call.colors[i] =
                IF call.locked[i] /\ i <= Len(call.prev)
                THEN call.prev[i]
                ELSE call.newColors[i]

C1_Witness ==
    /\ pc = "ready"
    /\ colors = call.colors
    /\ \E i, j \in Columns :
         /\ call.locked[i] /\ i <= Len(call.prev)
         /\ call.colors[i] = call.prev[i] /\ call.colors[i] # call.newColors[i]
         /\ ~call.locked[j]
         /\ call.colors[j] = call.newColors[j] /\ call.colors[j] # call.prev[j]

HueOffsets(kind) ==
    CASE kind = "monochromatic" -> <<0, 0, 0, 0, 0>>
      [] kind = "complementary" -> <<0, 0, 30, 180, 180>>
      [] kind = "triadic" -> <<0, 0, 120, 240, 240>>
      [] kind = "analogous" -> <<-30, -15, 0, 15, 30>>
      [] kind = "split-complementary" -> <<0, 0, 150, 210, 210>>
      [] kind = "tetradic" -> <<0, 90, 90, 180, 270>>

\* C2: with no position locked and a base hue in [0,360), the hues generatePalette
\* returns at positions 0..4 are normalizeHue(base.h + offset) for the offsets of
\* the harmony's row of the hue table; position 0 carries the base hue for
\* complementary, triadic, split-complementary and tetradic.
C2_HueTable ==
    ( /\ fnPc = "generatePalette"
      /\ fnRes.harmonyType \in Harmonies
      /\ fnRes.locked = AllUnlocked
      /\ fnArgs.h \in 0..359 ) =>
        /\ Len(fnRes.colors) = 5
        /\ \A i \in Columns :
             fnRes.colors[i].h =
                 normalizeHue(fnArgs.h + HueOffsets(fnRes.harmonyType)[i])
        /\ fnRes.harmonyType \in
               {"complementary", "triadic", "split-complementary", "tetradic"}
             => fnRes.colors[1].h = fnArgs.h

C2_Witness ==
    /\ fnPc = "generatePalette"
    /\ fnRes.harmonyType = "tetradic"
    /\ fnRes.locked = AllUnlocked
    /\ fnArgs.h = 345
    /\ [i \in Columns |-> fnRes.colors[i].h] = <<345, 75, 75, 165, 255>>

SaturationOffsets(kind) ==
    CASE kind = "complementary" -> <<0, -8, -20, -8, 0>>
      [] kind = "triadic" -> <<0, -12, 0, 0, -12>>
      [] kind = "analogous" -> <<-5, 0, 5, 0, -5>>
      [] kind = "split-complementary" -> <<0, -10, 0, 0, -10>>
      [] kind = "tetradic" -> <<0, -8, -15, 0, -8>>

LightnessRow(kind) ==
    CASE kind = "complementary" -> <<38, 55, 72, 55, 38>>
      [] kind = "triadic" -> <<45, 65, 52, 52, 65>>
      [] kind = "analogous" -> <<40, 50, 55, 50, 60>>
      [] kind = "split-complementary" -> <<40, 60, 50, 50, 65>>
      [] kind = "tetradic" -> <<45, 55, 70, 50, 55>>

\* C3: for the five non-monochromatic rules and base saturation s, the derived
\* colours have the saturation s + offset of the rule's row, never clamped, and
\* the fixed lightness of the row.
C3_SaturationLightnessTable ==
    ( /\ fnPc = "generatePalette"
      /\ fnRes.harmonyType \in Harmonies \ {"monochromatic"}
      /\ fnRes.locked = AllUnlocked ) =>
        \A i \in Columns :
            /\ fnRes.colors[i].s = fnArgs.s + SaturationOffsets(fnRes.harmonyType)[i]
            /\ fnRes.colors[i].l = LightnessRow(fnRes.harmonyType)[i]

\* base {h:0, s:80, l:50} under complementary
C3_Witness ==
    /\ fnPc = "generatePalette"
    /\ fnRes.harmonyType = "complementary"
    /\ fnRes.locked = AllUnlocked
    /\ fnArgs.h = 0 /\ fnArgs.s = 80 /\ fnArgs.l = 50
    /\ [i \in Columns |-> fnRes.colors[i].h] = <<0, 0, 30, 180, 180>>
    /\ [i \in Columns |-> fnRes.colors[i].l] = <<38, 55, 72, 55, 38>>
    /\ [i \in Columns |-> fnRes.colors[i].s] = <<80, 72, 60, 72, 80>>

Clamp(v, lo, hi) == IF v < lo THEN lo ELSE IF v > hi THEN hi ELSE v

\* C4: the monochromatic rule gives five colours of the base hue, lightness 28,
\* 42, 55, 68, 82 in that order and saturation base.s + (-8, -4, 0, 4, 8), each
\* clamped into [25,100], whatever the base lightness.
C4_Monochromatic ==
    ( /\ fnPc = "generatePalette"
      /\ fnRes.harmonyType = "monochromatic"
      /\ fnRes.locked = AllUnlocked ) =>
        /\ Len(fnRes.colors) = 5
        /\ \A i \in Columns :
             /\ fnRes.colors[i].h = fnArgs.h
             /\ fnRes.colors[i].l = <<28, 42, 55, 68, 82>>[i]
             /\ fnRes.colors[i].s =
                    Clamp(fnArgs.s + <<-8, -4, 0, 4, 8>>[i], 25, 100)

\* the lower end of the clamp at work: base saturation 20
C4_Witness ==
    /\ fnPc = "generatePalette"
    /\ fnRes.harmonyType = "monochromatic"
    /\ fnRes.locked = AllUnlocked
    /\ fnArgs.s = 20
    /\ fnArgs.l = 90
    /\ [i \in Columns |-> fnRes.colors[i].s] = <<25, 25, 25, 25, 28>>
    /\ [i \in Columns |-> fnRes.colors[i].l] = <<28, 42, 55, 68, 82>>

\* C5: every call of generatePalette returns exactly 5 colours, whatever the
\* selected harmony (a kind, 'random' or any other value) and the lock mask, and
\* state.colors has exactly 5 entries in every state after the first generation.
C5_PaletteSize ==
    pc = "ready" =>
        /\ Len(call.newColors) = columnCount
        /\ Len(call.colors) = columnCount
        /\ Len(colors) = columnCount
        /\ \A n \in 1..Len(savedPalettes) : Len(savedPalettes[n].colors) = columnCount

\* a harmony outside the six kinds was selected with a column locked
C5_Witness ==
    /\ pc = "ready"
    /\ call.selected = "pastel"
    /\ \E i \in Columns : call.locked[i] /\ call.colors[i] = call.prev[i]
    /\ Len(call.colors) = columnCount
    /\ colors = call.colors
    /\ Len(colors) = columnCount

\* C6: a selected 'random' is resolved to one of the six concrete kinds, never
\* 'random'; a selected concrete kind is returned unchanged, and the last
\* generation reports the kind that is selected now.
C6_HarmonySelection ==
    pc = "ready" =>
        /\ call.selected = selectedHarmony
        /\ call.selected = "random" =>
             call.harmonyType \in Harmonies /\ call.harmonyType # "random"
        /\ call.selected \in Harmonies => call.harmonyType = call.selected

\* 'triadic' was picked and a later generation, with the triadic palette on
\* display, reports 'triadic' again
C6_Witness ==
    /\ pc = "ready"
    /\ selectedHarmony = "triadic"
    /\ call.harmonyType = "triadic"
    /\ currentHarmony = "triadic"
    /\ steps = 2
    /\ Len(call.prev) = columnCount
    /\ [i \in Columns |-> call.prev[i].l] = LightnessRow("triadic")

\* the rule of a concrete kind
KindRule(kind, baseColor) ==
    CASE kind = "monochromatic" -> generateMonochromatic(baseColor)
      [] kind = "complementary" -> generateComplementary(baseColor)
      [] kind = "analogous" -> generateAnalogous(baseColor)
      [] kind = "triadic" -> generateTriadic(baseColor)
      [] kind = "split-complementary" -> generateSplitComplementary(baseColor)
      [] kind = "tetradic" -> generateTetradic(baseColor)

\* C7: whatever the selected harmony holds, the harmony a call of generatePalette
\* returns is one of the six concrete kinds and is the kind whose rule derived
\* the call's candidate colours.
C7_HarmonyProducedColours ==
    pc = "ready" =>
        /\ call.harmonyType \in Harmonies
        /\ call.newColors = KindRule(call.harmonyType, call.baseColor)

\* C7, amended: whenever the selected harmony is 'random' or one of the six
\* concrete kinds, the harmony a call of generatePalette returns is one of the six
\* concrete kinds and is the kind whose rule derived the call's candidate colours.
C7_KnownSelection ==
    (pc = "ready" /\ call.selected \in Harmonies \cup {"random"}) =>
        /\ call.harmonyType \in Harmonies
        /\ call.newColors = KindRule(call.harmonyType, call.baseColor)

\* 'random' was resolved to analogous and the analogous rule derived the colours
C7_Witness ==
    /\ pc = "ready"
    /\ call.selected = "random"
    /\ call.harmonyType = "analogous"
    /\ call.baseColor.h = 359
    /\ [i \in Columns |-> call.newColors[i].h] = <<329, 344, 359, 14, 29>>
    /\ [i \in Columns |-> call.newColors[i].l] = LightnessRow("analogous")

-----------------------------------------------------------------------------
(* Claims about the conversions *)

\* C8: normalizeHue(h) lies in [0,360) for every hue h, negative ones included,
\* and normalizeHue(h) = normalizeHue(h + 360*k) for every integer k.
C8_NormalizeHue ==
    fnPc = "normalizeHue" =>
        /\ fnRes.of_h \in 0..359
        /\ fnRes.of_shifted = fnRes.of_h

C8_Witness ==
    /\ fnPc = "normalizeHue"
    /\ fnArgs.h = -345
    /\ fnArgs.k = 1
    /\ fnRes.of_h = 15
    /\ fnRes.of_shifted = 15

HexDigits ==
    {"0", "1", "2", "3", "4", "5", "6", "7", "8", "9", "A", "B", "C", "D", "E", "F"}

\* C9: for all h, s, l the string hslToHex returns is '#' followed by exactly six
\* characters from 0-9 and A-F.
C9_HexShape ==
    fnPc = "hslToHex" =>
        /\ Len(fnRes) = 7
        /\ fnRes[1] = "#"
        /\ \A i \in 2..7 : fnRes[i] \in HexDigits

\* C9, amended: for every h and every s and l in [0,100], the string hslToHex
\* returns is '#' followed by exactly six characters from 0-9 and A-F.
C9_HexShapeInRange ==
    (fnPc = "hslToHex" /\ fnArgs.s \in 0..100 /\ fnArgs.l \in 0..100) =>
        /\ Len(fnRes) = 7
        /\ fnRes[1] = "#"
        /\ \A i \in 2..7 : fnRes[i] \in HexDigits

\* hslToHex(15, 100, 50), whose blue channel needs the padding
C9_Witness ==
    /\ fnPc = "hslToHex"
    /\ fnArgs.h = 15 /\ fnArgs.s = 100 /\ fnArgs.l = 50
    /\ fnRes = <<"#", "F", "F", "4", "0", "0", "0">>

\* C10: hslToRgb(0,100,50) = (255,0,0), hslToRgb(120,100,50) = (0,255,0),
\* hslToRgb(240,100,50) = (0,0,255), hslToHex(0,0,0) = '#000000' and
\* hslToHex(0,0,100) = '#FFFFFF'.
C10_ReferenceValues ==
    /\ (fnPc = "hslToRgb" /\ fnArgs.s = 100 /\ fnArgs.l = 50) =>
          /\ fnArgs.h = 0 => fnRes = [r |-> 255, g |-> 0, b |-> 0]
          /\ fnArgs.h = 120 => fnRes = [r |-> 0, g |-> 255, b |-> 0]
          /\ fnArgs.h = 240 => fnRes = [r |-> 0, g |-> 0, b |-> 255]
    /\ (fnPc = "hslToHex" /\ fnArgs.h = 0 /\ fnArgs.s = 0) =>
          /\ fnArgs.l = 0 => fnRes = <<"#", "0", "0", "0", "0", "0", "0">>
          /\ fnArgs.l = 100 => fnRes = <<"#", "F", "F", "F", "F", "F", "F">>

C10_Witness ==
    /\ fnPc = "hslToRgb"
    /\ fnArgs.h = 120 /\ fnArgs.s = 100 /\ fnArgs.l = 50
    /\ fnRes = [r |-> 0, g |-> 255, b |-> 0]


-----------------------------------------------------------------------------
(* Claims about formatting, contrast and sampling *)

Over0179(luminance) ==
    \/ luminance.units > 17900000
    \/ luminance.units = 17900000 /\ luminance.rest > 0

\* C11: getTextColor returns 'dark' exactly when the relative luminance of the
\* colour is strictly greater than 0.179 and 'light' otherwise; pure white
\* (h 0, s 0, l 100, luminance 1) gives 'dark' and pure black (h 0, s 0, l 0,
\* luminance 0) gives 'light'.
C11_TextColor ==
    fnPc = "getTextColor" =>
        /\ fnRes.text \in {"dark", "light"}
        /\ fnRes.text = "dark" <=> Over0179(fnRes.luminance)
        /\ (fnArgs.h = 0 /\ fnArgs.s = 0 /\ fnArgs.l = 100) =>
               fnRes.luminance.units = 100000000 /\ fnRes.text = "dark"
        /\ (fnArgs.h = 0 /\ fnArgs.s = 0 /\ fnArgs.l = 0) =>
               fnRes.luminance.units = 0 /\ fnRes.text = "light"

\* a colour of luminance between 0.179 and 0.5 (pure red, 0.2126) reads 'dark'
C11_Witness ==
    /\ fnPc = "getTextColor"
    /\ fnArgs.h = 0 /\ fnArgs.s = 100 /\ fnArgs.l = 50
    /\ fnRes.luminance.units = 21260000
    /\ fnRes.text = "dark"

\* C12: for every colour c, getColorValue(c, 'HEX') is hslToHex(c),
\* getColorValue(c, 'RGBA') is hslToRgba(c) with alpha 1, getColorValue(c, 'HSL')
\* is hslToString(c), and for every other format tag the result is hslToHex(c);
\* no tag raises an error.
C12_FormatDispatch ==
    fnPc = "getColorValue" =>
        LET h == fnArgs.h
            s == fnArgs.s
            l == fnArgs.l
            value == fnRes.value
            n == Len(value)
        IN  /\ fnRes.format = "HEX" => value = hslToHex(h, s, l)
            /\ fnRes.format = "RGBA" =>
                   /\ value = hslToRgba(h, s, l, 1)
                   /\ SubSeq(value, 1, 5) = <<"r", "g", "b", "a", "(">>
                   /\ SubSeq(value, n - 3, n) = <<",", " ", "1", ")">>
            /\ fnRes.format = "HSL" =>
                   /\ value = hslToString(h, s, l)
                   /\ SubSeq(value, 1, 4) = <<"h", "s", "l", "(">>
            /\ fnRes.format \notin {"HEX", "RGBA", "HSL"} => value = hslToHex(h, s, l)

\* an unrecognised tag was formatted as HEX, unlike the RGBA and HSL strings
C12_Witness ==
    /\ fnPc = "getColorValue"
    /\ fnRes.format = "CMYK"
    /\ fnArgs.h = 210 /\ fnArgs.s = 50 /\ fnArgs.l = 40
    /\ fnRes.value = <<"#", "3", "3", "6", "6", "9", "9">>
    /\ hslToRgba(210, 50, 40, 1) =
           <<"r", "g", "b", "a", "(", "5", "1", ",", " ", "1", "0", "2", ",", " ",
             "1", "5", "3", ",", " ", "1", ")">>
    /\ hslToString(210, 50, 40) =
           <<"h", "s", "l", "(", "2", "1", "0", ",", " ", "5", "0", "%", ",", " ",
             "4", "0", "%", ")">>

\* C16: every colour generateBaseColor returns has its hue in [0, 360), its
\* saturation in [55, 90] and its lightness in [42, 68].
C16_BaseColorRanges ==
    fnPc = "generateBaseColor" =>
        /\ 0 <= fnRes.h /\ fnRes.h < 360
        /\ 55 <= fnRes.s /\ fnRes.s <= 90
        /\ 42 <= fnRes.l /\ fnRes.l <= 68

\* the greatest draws give the greatest hue and saturation, the least draw the
\* least lightness
C16_Witness ==
    /\ fnPc = "generateBaseColor"
    /\ fnArgs.random = <<359, 359, 0>>
    /\ fnRes = [h |-> 359, s |-> 89, l |-> 42]

-----------------------------------------------------------------------------
(* Claims about the application state *)

\* C13: a call of generatePalette leaves state.lockedColors, state.colors,
\* state.selectedHarmony, state.selectedFormats and state.savedPalettes as they
\* were: what the call read is the state before the step, the locks, the formats
\* and the saved records (which share their colour objects with the palettes
\* displayed earlier) are the same after it, and state.colors and
\* state.currentHarmony change only by handleGenerate's assignment of what the
\* call returned.
C13_GenerateFrame ==
    [][call' # call =>
          /\ call'.locked = lockedColors
          /\ call'.prev = colors
          /\ lockedColors' = lockedColors
          /\ selectedFormats' = selectedFormats
          /\ savedPalettes' = savedPalettes
          /\ selectedHarmony' = call'.selected
          /\ colors' = call'.colors
          /\ currentHarmony' = call'.harmonyType]_vars

\* a generation with a locked column and a saved record that holds the colours
\* the call read
C13_Witness ==
    /\ pc = "ready"
    /\ colors = call.colors
    /\ call.prev # <<>>
    /\ call.prev # call.colors
    /\ call.locked = lockedColors
    /\ \E i \in Columns : lockedColors[i]
    /\ Len(savedPalettes) = 1
    /\ savedPalettes[1].colors = call.prev

\* C14: after any sequence of signup, login, logout, save, delete and clear-all
\* operations, the list stored under a storage key (that of a user id, or the
\* guest's when nobody is logged in) contains only records that were saved while
\* that key was the current one.
C14_UserNamespaces ==
    \A key \in DOMAIN storage :
        \A n \in 1..Len(storage[key]) : <<key, storage[key][n]>> \in savedUnder

C15_SavedImmutable ==
    [][pc = "ready" =>
          \A n \in 1..Len(savedPalettes) :
              LET p == savedPalettes[n]
              IN  \/ last'.name = "clearAllPalettes"
                  \/ last'.name = "deletePalette" /\ last'.id = p.id
                  \/ /\ Len(p.colors) = columnCount
                     /\ \E m \in 1..Len(savedPalettes') : savedPalettes'[m] = p]_vars

\* a record saved before a generation was loaded back after it
C15_Witness ==
    /\ last.name = "loadPalette"
    /\ last.id \in SavedIds
    /\ Len(savedPalettes) = 1
    /\ colors = savedPalettes[1].colors
    /\ call.prev = savedPalettes[1].colors
    /\ call.colors # colors

\* C17: a locked column keeps its colour: across every step, a column that is
\* locked before the step holds the same colour after it, unless the step loads
\* a saved palette (which unlocks the column); so a generation replaces
\* unlocked columns only.
C17_LockedKeepsColour ==
    [][pc = "ready" =>
          \A i \in Columns :
              lockedColors[i] =>
                  \/ colors'[i] = colors[i]
                  \/ last'.name = "loadPalette" /\ ~lockedColors'[i]]_vars

\* a locked column whose format was changed kept its colour through a
\* generation that derived another colour for it and replaced another column
C17_Witness ==
    /\ pc = "ready"
    /\ colors = call.colors
    /\ \E i \in Columns :
         /\ lockedColors[i] /\ call.locked[i]
         /\ selectedFormats[i] # "HEX"
         /\ colors[i] = call.prev[i]
         /\ call.newColors[i] # colors[i]
    /\ \E j \in Columns : colors[j] # call.prev[j]

\* C18: loadPalette(id): when a saved record has that id, state.colors becomes
\* the five colours of such a record and state.currentHarmony its harmony, all
\* five locks become false and the view becomes 'generator', while the saved
\* list and the selected harmony are unchanged; when no record has that id,
\* nothing in the state changes.
C18_LoadPalette ==
    [][last'.name = "loadPalette" =>
          LET hits == {n \in 1..Len(savedPalettes) : savedPalettes[n].id = last'.id}
          IN  IF hits # {}
              THEN /\ \E n \in hits :
                        /\ colors' = savedPalettes[n].colors
                        /\ currentHarmony' = savedPalettes[n].harmony
                   /\ Len(colors') = columnCount
                   /\ \A i \in Columns : ~lockedColors'[i]
                   /\ currentView' = "generator"
                   /\ savedPalettes' = savedPalettes
                   /\ selectedHarmony' = selectedHarmony
              ELSE UNCHANGED <<colors, currentHarmony, selectedHarmony,
                               selectedFormats, lockedColors, savedPalettes,
                               currentView, currentUser>>]_vars

\* a record was loaded over a palette generated for a harmony chosen after the
\* save
C18_Witness ==
    /\ last.name = "loadPalette"
    /\ last.id \in SavedIds
    /\ selectedHarmony # "random"
    /\ call.selected = selectedHarmony
    /\ colors = savedPalettes[1].colors
    /\ colors # call.colors
    /\ currentHarmony = savedPalettes[1].harmony
    /\ currentHarmony # call.harmonyType
    /\ lockedColors = AllUnlocked
    /\ currentView = "generator"

\* C20: in every state reached through lock toggles, generations and palette
\* loads, column i carries the locked class (and the closed padlock) exactly
\* when state.lockedColors[i] is true.
C20_LockIndicator ==
    pc = "ready" => \A i \in Columns : lockedClass[i] <=> lockedColors[i]

-----------------------------------------------------------------------------
(* Claims about derived colours, accounts and the theme *)

\* C25: for every harmony kind and every base colour with h in [0, 360), s in
\* [55, 90] and l in [42, 68], each of the five colours the rule derives has
\* its hue in [0, 360), its saturation in [0, 100] and its lightness in [0, 100].
C25_DerivedInRange ==
    (/\ fnPc = "generatePalette"
     /\ 0 <= fnArgs.h /\ fnArgs.h < 360
     /\ 55 <= fnArgs.s /\ fnArgs.s <= 90
     /\ 42 <= fnArgs.l /\ fnArgs.l <= 68) =>
        /\ Len(fnRes.newColors) = 5
        /\ \A i \in 1..5 :
             LET c == fnRes.newColors[i]
             IN  /\ 0 <= c.h /\ c.h < 360
                 /\ 0 <= c.s /\ c.s <= 100
                 /\ 0 <= c.l /\ c.l <= 100

\* the greatest base colour under the rule that raises the saturation
C25_Witness ==
    /\ fnPc = "generatePalette"
    /\ fnArgs.h = 359 /\ fnArgs.s = 90 /\ fnArgs.l = 68
    /\ fnRes.harmonyType = "analogous"
    /\ fnRes.newColors[3] = [h |-> 359, s |-> 95, l |-> 55]
    /\ fnRes.newColors[5] = [h |-> 29, s |-> 85, l |-> 60]

\* C26: if the user has never chosen a theme, then after init every change of
\* the system's colour scheme preference sets state.theme and the data-theme
\* attribute to the new preference, 'dark' or 'light'.
C26_ThemeFollowsSystem ==
    [][(pc = "ready" /\ ~userChose /\ prefersDark' # prefersDark) =>
          /\ theme' = schemeOf(prefersDark')
          /\ dataTheme' = schemeOf(prefersDark')]_vars


\* C21: a user that signup has stored stays stored: no later step, the return
\* of another signup that was awaiting hashPassword included, takes a record
\* out of the stored user list
C21_SignupDurable ==
    [][\A i \in 1..Len(users) : \E j \in 1..Len(users') : users'[j] = users[i]]_vars

UniqueEmails(list) ==
    \A i, j \in 1..Len(list) :
        toLowerCase(list[i].email) = toLowerCase(list[j].email) => i = j

\* the form passes the checks of signup on the name, the email and the password
FormValid(form) ==
    /\ Len(sanitizeInput(form.name)) \in 2..50
    /\ isValidEmail(sanitizeInput(form.email))
    /\ validatePassword(form.password) = ""

SignupMessages ==
    { "Please fill all fields", "Name must be 2-50 characters", "Invalid email format",
      "Password must be at least 8 characters",
      "Password must contain an uppercase letter",
      "Password must contain a lowercase letter",
      "Password must contain a number", "Email already registered" }

\* C23: a signup that returns a failure (a field is empty, the name is not 2 to
\* 50 characters long, the email is not valid, the password fails
\* validatePassword, or the email is registered) leaves the stored user list
\* and the current user as they were before the call; a signup that returns a
\* success stores the list as it was before the call with one user added at its
\* end and makes that user, without the password, the current user; no other
\* step changes the stored user list
C23_SignupEffects ==
    [][/\ (last'.name = "signup" /\ ~last'.success) =>
              /\ users' = users
              /\ currentUser' = currentUser
              /\ last'.message \in SignupMessages
              /\ \/ ~FormValid(last'.form)
                 \/ Registered(users, sanitizeInput(last'.form.email))
       /\ (last'.name = "signup" /\ last'.success) =>
              /\ users' = Append(last'.read, last'.user)
              /\ currentUser' = [id |-> last'.user.id, name |-> last'.user.name,
                                 email |-> last'.user.email]
              /\ Len(last'.user.name) \in 2..50
              /\ isValidEmail(last'.user.email)
              /\ ~Registered(last'.read, last'.user.email)
       /\ users' # users => (last'.name = "signup" /\ last'.success)]_vars

\* a user is stored and current, and a signup whose password has no digit has
\* just been rejected
C23_Witness ==
    /\ last.name = "signup"
    /\ ~last.success
    /\ last.message = "Password must contain a number"
    /\ Len(users) = 1
    /\ currentUser # Null

\* C24 as stated, with the email as it was given to login: login succeeds
\* exactly when a user of the list it read has that email, compared without
\* regard to case, and the digest of the given password
C24_LoginByGivenEmail ==
    [][last'.name = "login" =>
          (last'.success <=>
              Matches(last'.read, last'.form.email, last'.form.password) # {})]_vars

\* C24: login succeeds exactly when a user of the stored list, as login read it
\* when it was called, has the given email after sanitizeInput (trimmed, angle
\* brackets removed, at most 255 characters), compared without regard to case,
\* and a stored digest equal to the digest of the given password; on success
\* the current user becomes the record of that user without its password; on
\* failure the current user stays as it was; the stored user list never changes
C24_Login ==
    [][last'.name = "login" =>
          LET hits == {i \in 1..Len(last'.read) :
                          /\ toLowerCase(last'.read[i].email)
                                = toLowerCase(sanitizeInput(last'.form.email))
                          /\ last'.read[i].password = hashPassword(last'.form.password)}
          IN  /\ last'.success <=> hits # {}
              /\ last'.success =>
                    \E i \in hits :
                        currentUser' = [id |-> last'.read[i].id,
                                        name |-> last'.read[i].name,
                                        email |-> last'.read[i].email]
              /\ ~last'.success => currentUser' = currentUser
              /\ users' = users]_vars

\* a login with the email in capitals, between spaces and with an angle bracket
\* has just succeeded, and the user it found is the current user
C24_Witness ==
    /\ last.name = "login"
    /\ last.success
    /\ last.form.email # sanitizeInput(last.form.email)
    /\ currentUser # Null
    /\ currentUser.email = toLowerCase(sanitizeInput(last.form.email))

====
